---- MODULE Spec2Model ----
(***************************************************************************)
(* A model of src/opt.py: the epoch-level training driver train_one_epoch  *)
(* and the epoch-level evaluation driver evaluate_fn.                      *)
(*                                                                         *)
(* Both drivers are sequential.  Each action below is one statement group  *)
(* of the source; pc names the statement the driver executes next.         *)
(* The collaborators (model, optimizer, tokenizer, CTC decoder, metric     *)
(* functions, metric aggregator) live outside src/opt.py: what they return *)
(* is an input here, and the aggregator and the metric functions are       *)
(* modelled from their description.                                        *)
(***************************************************************************)
EXTENDS Integers, Sequences, FiniteSets, TLC

VARIABLES
    pc,            \* the statement the running driver executes next
    stream,        \* the data loader's batches, in order
    i,             \* number of batches fetched from the stream so far
    training,      \* model.training (set by model.train() / model.eval())
    params,        \* model parameters (abstract value)
    grads,         \* parameter gradients (abstract value)
    optState,      \* optimizer state: number of optimizer.step() calls applied
    backwards,     \* number of loss.backward() calls made
    gradEnabled,   \* torch.is_grad_enabled()
    meters,        \* metric_logger.meters: name -> values recorded, in order
    loss,          \* output['total_loss'] of the current batch
    lastGood,      \* <<params, optState>> as of the end of the last completed batch
    ret,           \* the mapping the driver returned
    flags,         \* evaluate_fn's arguments
    results,       \* evaluate_fn's per-sample results table
    name,          \* evaluate_fn's local `name` (left over from the zip loops)
    evaluation_results, \* evaluate_fn's local `evaluation_results`
    file,          \* content at results_path: the sequence of documents it holds
    fileWrites,    \* number of writes to results_path during the current call
    prevGrad,      \* the grad mode torch.no_grad() saved when it was entered
    entry,         \* model and autograd state on entry of the current call
    failure,       \* why the call propagated an error
    run,           \* which of the two consecutive evaluate_fn calls is running
    first          \* outcome of the first evaluate_fn call

vars == <<pc, stream, i, training, params, grads, optState, backwards, gradEnabled,
          meters, loss, lastGood, ret, flags, results, name, evaluation_results,
          file, fileWrites, prevGrad, entry, failure, run, first>>

(***************************************************************************)
(* Bounds of the model.                                                    *)
(***************************************************************************)
MaxTrainBatches == 3
MaxEvalBatches == 2
MaxBatchSize == 2

(***************************************************************************)
(* Small helpers on finite maps (Python dicts).                            *)
(***************************************************************************)
EmptyMap == [x \in {} |-> x]

Put(m, k, v) == [x \in (DOMAIN m) \cup {k} |-> IF x = k THEN v ELSE m[x]]

RECURSIVE SumSeq(_)
SumSeq(s) == IF s = <<>> THEN 0 ELSE Head(s) + SumSeq(Tail(s))

(***************************************************************************)
(* Loss values.  A loss is a float: finite, NaN or infinite.               *)
(***************************************************************************)
Fin(v) == [kind |-> "fin", v |-> v]
NaN == [kind |-> "nan", v |-> 0]
PosInf == [kind |-> "inf", v |-> 0]
NegInf == [kind |-> "-inf", v |-> 0]
NoLoss == [kind |-> "none", v |-> 0]

TrainLosses == {Fin(0), Fin(2), NaN, PosInf, NegInf}

\* torch.isnan(loss) or torch.isinf(loss)
IsNanOnly(l) == l.kind = "nan"
IsNanOrInf(l) == l.kind = "nan" \/ l.kind \in {"inf", "-inf"}

\* math.isfinite(loss)
IsFinite(l) == l.kind = "fin"

(***************************************************************************)
(* The metric aggregator (MetricLogger / SmoothedValue of logger.py).      *)
(* update(k=v) appends v to meter k, creating the meter on first use;      *)
(* global_avg is total / count, kept here as a fraction <<numerator, denom>>. *)
(***************************************************************************)
MeterUpdate(m, k, v) == Put(m, k, IF k \in DOMAIN m THEN Append(m[k], v) ELSE <<v>>)

RECURSIVE GCD(_, _)
GCD(a, b) == IF b = 0 THEN a ELSE GCD(b, a % b)

\* total / count as a fraction in lowest terms; every meter read below has
\* at least one value, since the streams are not empty
GlobalAvg(values) ==
    LET total == SumSeq(values)
        count == Len(values)
        g == GCD(total, count)
    IN IF count = 0 THEN <<0, 0>> ELSE <<total \div g, count \div g>>

Averages(m) == [k \in DOMAIN m |-> GlobalAvg(m[k])]

(***************************************************************************)
(* The model and the optimizer, abstractly.  The gradient of a finite loss *)
(* is the loss value; of a non-finite loss it is NaN (PoisonGrad).         *)
(* clip_grad_norm_ scales a gradient down to norm MaxNorm.  A step moves   *)
(* the parameters by the gradient at learning rate LearningRate; a NaN     *)
(* gradient poisons the parameters.                                        *)
(***************************************************************************)
MaxNorm == 1
LearningRate == 1
PoisonGrad == -1
PoisonParams == -1

Gradient(l) == IF IsFinite(l) THEN l.v ELSE PoisonGrad

ClipGradNorm(g) == IF g = PoisonGrad THEN g ELSE IF g > MaxNorm THEN MaxNorm ELSE g

StepParams(p, g) ==
    IF g = PoisonGrad \/ p = PoisonParams THEN PoisonParams ELSE p + LearningRate * g

(***************************************************************************)
(* State on entry of a call, and what a call that has not started holds.   *)
(***************************************************************************)
ModelState == [training |-> training, params |-> params, grads |-> grads,
               optState |-> optState, backwards |-> backwards,
               gradEnabled |-> gradEnabled]

NoFlags == [do_recognition |-> FALSE, do_translation |-> FALSE, lower_case |-> FALSE,
            results_path |-> FALSE, generate_cfg |-> 0]

Unbound == "<unbound>"

UnboundResults == [bound |-> FALSE, map |-> EmptyMap]

NoOutcome == [ret |-> EmptyMap, file |-> <<>>]

evalLocals == <<flags, results, name, evaluation_results, file, fileWrites, prevGrad,
               run, first>>

(***************************************************************************)
(* train_one_epoch                                                         *)
(***************************************************************************)
TrainStreams == UNION {[1..n -> TrainLosses] : n \in 1..MaxTrainBatches}

TrainInit ==
    /\ pc = "t_begin"
    /\ stream \in TrainStreams
    /\ i = 0
    /\ training \in BOOLEAN
    /\ params = 0
    /\ grads = 0
    /\ optState = 0
    /\ backwards = 0
    /\ gradEnabled = TRUE
    /\ meters = EmptyMap
    /\ loss = NoLoss
    /\ lastGood = <<0, 0>>
    /\ ret = EmptyMap
    /\ flags = NoFlags
    /\ results = EmptyMap
    /\ name = Unbound
    /\ evaluation_results = UnboundResults
    /\ file = <<>>
    /\ fileWrites = 0
    /\ prevGrad = TRUE
    /\ entry = [training |-> training, params |-> 0, grads |-> 0, optState |-> 0,
                backwards |-> 0, gradEnabled |-> TRUE]
    /\ failure = "none"
    /\ run = 1
    /\ first = NoOutcome

\* lines 13-15: model.train(); a fresh aggregator with the 'lr' meter added
TrainBegin ==
    /\ pc = "t_begin"
    /\ training' = TRUE
    /\ meters' = Put(EmptyMap, "lr", <<>>)
    /\ pc' = "t_fetch"
    /\ UNCHANGED <<stream, i, params, grads, optState, backwards, gradEnabled, loss,
                   lastGood, ret, entry, failure>>
    /\ UNCHANGED evalLocals

\* line 17: the next batch of the stream, or the end of the loop
TrainFetch ==
    /\ pc = "t_fetch"
    /\ IF i < Len(stream)
         THEN i' = i + 1 /\ pc' = "t_zero_grad"
         ELSE i' = i /\ pc' = "t_return"
    /\ UNCHANGED <<stream, training, params, grads, optState, backwards, gradEnabled,
                   meters, loss, lastGood, ret, entry, failure>>
    /\ UNCHANGED evalLocals

\* line 18: optimizer.zero_grad()
TrainZeroGrad ==
    /\ pc = "t_zero_grad"
    /\ grads' = 0
    /\ pc' = "t_forward"
    /\ UNCHANGED <<stream, i, training, params, optState, backwards, gradEnabled,
                   meters, loss, lastGood, ret, entry, failure>>
    /\ UNCHANGED evalLocals

\* lines 19-21: output = model(src_input); loss = output['total_loss']
TrainForward ==
    /\ pc = "t_forward"
    /\ loss' = stream[i]
    /\ pc' = "t_check"
    /\ UNCHANGED <<stream, i, training, params, grads, optState, backwards,
                   gradEnabled, meters, lastGood, ret, entry, failure>>
    /\ UNCHANGED evalLocals

\* lines 22-24: inside the anomaly-detection scope, raise ValueError("NaN loss")
\* when the loss is NaN or infinite
TrainCheckMissing ==
    /\ pc = "t_check"
    /\ pc' = "t_backward"
    /\ UNCHANGED <<stream, i, training, params, grads, optState, backwards,
                   gradEnabled, meters, loss, lastGood, ret, entry, failure>>
    /\ UNCHANGED evalLocals

TrainCheck ==
    /\ pc = "t_check"
    /\ IF IsNanOrInf(loss)
         THEN pc' = "t_raised" /\ failure' = "ValueError"
         ELSE pc' = "t_backward" /\ failure' = failure
    /\ UNCHANGED <<stream, i, training, params, grads, optState, backwards,
                   gradEnabled, meters, loss, lastGood, ret, entry>>
    /\ UNCHANGED evalLocals

\* lines 25-26: loss.backward(); clip_grad_norm_(model.parameters(), max_norm=1.0)
TrainBackward ==
    /\ pc = "t_backward"
    /\ grads' = ClipGradNorm(Gradient(loss))
    /\ backwards' = backwards + 1
    /\ pc' = "t_step"
    /\ UNCHANGED <<stream, i, training, params, optState, gradEnabled, meters, loss,
                   lastGood, ret, entry, failure>>
    /\ UNCHANGED evalLocals

\* lines 27-28: optimizer.step(); model.zero_grad()
TrainStepTwice ==
    /\ pc = "t_step"
    /\ params' = StepParams(StepParams(params, grads), grads)
    /\ optState' = optState + 2
    /\ grads' = 0
    /\ pc' = "t_finite"
    /\ UNCHANGED <<stream, i, training, backwards, gradEnabled, meters, loss,
                   lastGood, ret, entry, failure>>
    /\ UNCHANGED evalLocals

TrainStep ==
    /\ pc = "t_step"
    /\ params' = StepParams(params, grads)
    /\ optState' = optState + 1
    /\ grads' = 0
    /\ pc' = "t_finite"
    /\ UNCHANGED <<stream, i, training, backwards, gradEnabled, meters, loss,
                   lastGood, ret, entry, failure>>
    /\ UNCHANGED evalLocals

\* lines 29-31: if not math.isfinite(loss): print(...); sys.exit(1)
TrainFinite ==
    /\ pc = "t_finite"
    /\ IF ~IsFinite(loss)
         THEN pc' = "t_exited" /\ failure' = "SystemExit"
         ELSE pc' = "t_update" /\ failure' = failure
    /\ UNCHANGED <<stream, i, training, params, grads, optState, backwards,
                   gradEnabled, meters, loss, lastGood, ret, entry>>
    /\ UNCHANGED evalLocals

\* lines 32-33: metric_logger.update(loss=loss_value); metric_logger.update(lr=...)
TrainUpdate ==
    /\ pc = "t_update"
    /\ meters' = MeterUpdate(MeterUpdate(meters, "loss", loss.v), "lr", LearningRate)
    /\ lastGood' = <<params, optState>>
    /\ pc' = "t_fetch"
    /\ UNCHANGED <<stream, i, training, params, grads, optState, backwards,
                   gradEnabled, loss, ret, entry, failure>>
    /\ UNCHANGED evalLocals

\* lines 35-36: return {k: meter.global_avg for k, meter in metric_logger.meters.items()}
TrainReturn ==
    /\ pc = "t_return"
    /\ ret' = Averages(meters)
    /\ pc' = "t_done"
    /\ UNCHANGED <<stream, i, training, params, grads, optState, backwards,
                   gradEnabled, meters, loss, lastGood, entry, failure>>
    /\ UNCHANGED evalLocals

TrainNext ==
    \/ TrainBegin
    \/ TrainFetch
    \/ TrainZeroGrad
    \/ TrainForward
    \/ TrainCheck
    \/ TrainBackward
    \/ TrainStep
    \/ TrainFinite
    \/ TrainUpdate
    \/ TrainReturn

TrainSpec == TrainInit /\ [][TrainNext]_vars

(***************************************************************************)
(* evaluate_fn: the data.                                                  *)
(*                                                                         *)
(* A batch carries its sample names; the frozen model's output for it has  *)
(* one '<head>gloss_logits' field per gloss head the model emits for that  *)
(* batch, besides total_loss, input_lengths and transformer_inputs.  A key *)
(* 'left_gloss_logits' is the pair <<"left_", "gloss_logits">>, so that    *)
(* the source's substring tests and replacements are tests and             *)
(* replacements of the pair's second component.                            *)
(***************************************************************************)
Names == {"s1", "s2", "s3"}
Heads == {"left_", "right_"}

RECURSIVE SeqToSet(_)
SeqToSet(s) == IF s = <<>> THEN {} ELSE {Head(s)} \cup SeqToSet(Tail(s))

NameSeqs ==
    {q \in UNION {[1..n -> Names] : n \in 1..MaxBatchSize} :
        Cardinality(SeqToSet(q)) = Len(q)}

Batches == [names : NameSeqs, heads : SUBSET Heads]

RECURSIVE StreamNames(_)
StreamNames(st) ==
    IF st = <<>> THEN <<>> ELSE Head(st).names \o StreamNames(Tail(st))

\* one pass of a data loader over a dataset yields every sample at most once
EvalStreams ==
    {st \in UNION {[1..n -> Batches] : n \in 1..MaxEvalBatches} :
        Cardinality(SeqToSet(StreamNames(st))) = Len(StreamNames(st))}

\* output = model(src_input): the keys of the output mapping
OutputKeys(b) ==
    {<<h, "gloss_logits">> : h \in b.heads}
        \cup {<<"", "total_loss">>, <<"", "input_lengths">>, <<"", "transformer_inputs">>}

\* output['total_loss'].item()
TotalLoss(b) == Len(b.names)

\* 'gloss_logits' in k
IsGlossLogits(k) == k[2] = "gloss_logits"

\* k.replace('gloss_logits', '')
LogitsName(k) == k[1]

\* f'{logits_name}_gls_hyp'
HypField(logits_name) == <<logits_name, "_gls_hyp">>

GlsRefField == <<"", "gls_ref">>
TxtHypField == <<"", "txt_hyp">>
TxtRefField == <<"", "txt_ref">>

\* 'gls_hyp' in hyp_name
IsGlsHyp(hyp_name) == hyp_name[2] = "_gls_hyp"

\* hyp_name.replace('gls_hyp', '') + 'wer_list'
WerListKey(hyp_name) == <<hyp_name[1], "_wer_list">>

WerKey == <<"", "wer">>
RougeKey == <<"", "rouge">>
BleuKey == <<"", "bleu">>

\* str.upper() on a gloss string (a sequence of gloss tokens)
UpperToken(t) == CASE t = "a" -> "A" [] t = "b" -> "B" [] OTHER -> t

Upper(str) == [k \in 1..Len(str) |-> UpperToken(str[k])]

\* The dataset and the frozen model, as tables.  The reference glosses and
\* what ctc_decode followed by tokenizer.batch_decode yields per head, in
\* lower case; a tokenizer that is not lower_case has an upper-case vocabulary.
BaseGlossRef(s) ==
    CASE s = "s1" -> <<"a", "b">>
      [] s = "s2" -> <<"b">>
      [] OTHER -> <<"a">>

BaseDecode(h, s) ==
    CASE h = "left_" /\ s = "s1" -> <<"a", "b">>
      [] h = "left_" /\ s = "s2" -> <<>>
      [] h = "left_" -> <<"a">>
      [] s = "s1" -> <<"a">>
      [] s = "s2" -> <<"b">>
      [] OTHER -> <<"b", "a", "b">>

\* src_input['gloss_input']
GlossInput(s, lower_case) ==
    IF lower_case THEN BaseGlossRef(s) ELSE Upper(BaseGlossRef(s))

\* tokenizer.batch_decode(ctc_decode(...)) for one sample
BatchDecode(h, s, lower_case) ==
    IF lower_case THEN BaseDecode(h, s) ELSE Upper(BaseDecode(h, s))

\* src_input['text'] and model.generate_txt(...)['decoded_sequences']
TextInput(s) == <<"text", s>>

GenerateTxt(s, generate_cfg) ==
    IF (s = "s1") = (generate_cfg = 0) THEN <<"text", s>> ELSE <<"text", "other">>

(***************************************************************************)
(* The metric functions of metrics.py, from their description: wer_list    *)
(* is the corpus-level word error rate, 100 * edit errors / reference      *)
(* words; bleu and rouge score how many hypotheses match their reference.  *)
(***************************************************************************)
Min(a, b) == IF a < b THEN a ELSE b

RECURSIVE EditDistance(_, _)
EditDistance(a, b) ==
    IF a = <<>> THEN Len(b)
    ELSE IF b = <<>> THEN Len(a)
    ELSE IF Head(a) = Head(b) THEN EditDistance(Tail(a), Tail(b))
    ELSE 1 + Min(EditDistance(Tail(a), Tail(b)),
                 Min(EditDistance(Tail(a), b), EditDistance(a, Tail(b))))

RECURSIVE SumOver(_, _)
SumOver(S, f) ==
    IF S = {} THEN 0
    ELSE LET x == CHOOSE y \in S : TRUE IN f[x] + SumOver(S \ {x}, f)

\* wer_list(hypotheses, references), the lists given here as maps from sample
WerList(hyp, ref) ==
    LET errs == [n \in DOMAIN hyp |-> EditDistance(hyp[n], ref[n])]
        lens == [n \in DOMAIN hyp |-> Len(ref[n])]
    IN [wer |-> (100 * SumOver(DOMAIN hyp, errs)) \div SumOver(DOMAIN hyp, lens)]

MatchPercent(hyp, ref) ==
    LET hit == [n \in DOMAIN hyp |-> IF hyp[n] = ref[n] THEN 1 ELSE 0]
    IN (100 * SumOver(DOMAIN hyp, hit)) \div Cardinality(DOMAIN hyp)

Bleu(ref, hyp) ==
    LET m == MatchPercent(hyp, ref)
    IN [bleu1 |-> m, bleu2 |-> m, bleu3 |-> m, bleu4 |-> m]

Rouge(ref, hyp) == MatchPercent(hyp, ref)

(***************************************************************************)
(* evaluate_fn: the results table, a defaultdict(dict).                    *)
(***************************************************************************)
\* results[n] of a defaultdict(dict): a missing key reads as a fresh dict
DictGet(r, n) == IF n \in DOMAIN r THEN r[n] ELSE EmptyMap

\* results[n][f] = v
SetField(r, n, f, v) == Put(r, n, Put(DictGet(r, n), f, v))

\* lines 59-61: the zip loop of one gloss head over the batch's samples
RECURSIVE WriteGloss(_, _, _, _)
WriteGloss(r, logits_name, names, lower_case) ==
    IF names = <<>> THEN r
    ELSE LET n == Head(names)
             gls_hyp == BatchDecode(logits_name, n, lower_case)
             gls_ref == GlossInput(n, lower_case)
             r1 == SetField(r, n, HypField(logits_name),
                            IF lower_case THEN Upper(gls_hyp) ELSE gls_hyp)
             r2 == SetField(r1, n, GlsRefField,
                            IF lower_case THEN Upper(gls_ref) ELSE gls_ref)
         IN WriteGloss(r2, logits_name, Tail(names), lower_case)

\* lines 50-61: the loop over the output's fields, skipping all but gloss logits
RECURSIVE RecognitionWrites(_, _, _, _)
RecognitionWrites(r, keys, names, lower_case) ==
    IF keys = {} THEN r
    ELSE LET k == CHOOSE x \in keys : TRUE
             r1 == IF ~IsGlossLogits(k) THEN r
                   ELSE WriteGloss(r, LogitsName(k), names, lower_case)
         IN RecognitionWrites(r1, keys \ {k}, names, lower_case)

\* lines 63-68: generate_txt and the zip loop over the batch's samples
RECURSIVE TranslationReplacesEntry(_, _, _)
TranslationReplacesEntry(r, names, generate_cfg) ==
    IF names = <<>> THEN r
    ELSE LET n == Head(names)
             r1 == Put(r, n, Put(Put(EmptyMap, TxtHypField, GenerateTxt(n, generate_cfg)),
                                 TxtRefField, TextInput(n)))
         IN TranslationReplacesEntry(r1, Tail(names), generate_cfg)

RECURSIVE TranslationWrites(_, _, _)
TranslationWrites(r, names, generate_cfg) ==
    IF names = <<>> THEN r
    ELSE LET n == Head(names)
             r1 == SetField(r, n, TxtHypField, GenerateTxt(n, generate_cfg))
             r2 == SetField(r1, n, TxtRefField, TextInput(n))
         IN TranslationWrites(r2, Tail(names), generate_cfg)

\* line 73
WerStart == 200

\* lines 74-82: one WER per hypothesis field of results[name]
RECURSIVE ScoreHeads(_, _, _)
ScoreHeads(ev, hyp_names, r) ==
    IF hyp_names = {} THEN ev
    ELSE LET hyp_name == CHOOSE x \in hyp_names : TRUE
             gls_ref == [n \in DOMAIN r |-> r[n][GlsRefField]]
             gls_hyp == [n \in DOMAIN r |-> r[n][hyp_name]]
             wer_results == WerList(gls_hyp, gls_ref)
             ev1 == Put(ev, WerListKey(hyp_name), wer_results)
             ev2 == Put(ev1, WerKey, Min(wer_results.wer, ev1[WerKey]))
         IN ScoreHeads(ev2, hyp_names \ {hyp_name}, r)

\* json.dump(results, f): one JSON object, a member per sample name, whose
\* value is the object of that sample's fields
JsonDump(r) ==
    [members |-> DOMAIN r,
     fields |-> UNION {{<<n, f, r[n][f]>> : f \in DOMAIN r[n]} : n \in DOMAIN r}]

(***************************************************************************)
(* evaluate_fn: the steps.                                                 *)
(***************************************************************************)
EvalInit ==
    /\ pc = "e_begin"
    /\ stream \in EvalStreams
    /\ i = 0
    /\ training \in BOOLEAN
    /\ params = 0
    /\ grads = 0
    /\ optState = 0
    /\ backwards = 0
    /\ gradEnabled \in BOOLEAN
    /\ meters = EmptyMap
    /\ loss = NoLoss
    /\ lastGood = <<0, 0>>
    /\ ret = EmptyMap
    /\ flags \in [do_recognition : BOOLEAN, do_translation : BOOLEAN,
                  lower_case : BOOLEAN, results_path : BOOLEAN, generate_cfg : {0, 1}]
    /\ results = EmptyMap
    /\ name = Unbound
    /\ evaluation_results = UnboundResults
    /\ file = <<>>
    /\ fileWrites = 0
    /\ prevGrad = gradEnabled
    /\ entry = [training |-> training, params |-> 0, grads |-> 0, optState |-> 0,
                backwards |-> 0, gradEnabled |-> gradEnabled]
    /\ failure = "none"
    /\ run = 1
    /\ first = NoOutcome

modelVars == <<params, grads, optState, backwards>>
trainLocals == <<loss, lastGood>>

\* an exception leaving the `with torch.no_grad():` block of line 46: the
\* context manager restores the grad mode it saved, then the error propagates
RaiseKeepsNoGrad(kind) ==
    /\ pc' = "e_raised"
    /\ failure' = kind
    /\ gradEnabled' = gradEnabled

RaiseInsideNoGrad(kind) ==
    /\ pc' = "e_raised"
    /\ failure' = kind
    /\ gradEnabled' = prevGrad

\* lines 40-44: model.eval(); a fresh aggregator; results = defaultdict(dict)
EvalBeginTrainMode ==
    /\ pc = "e_begin"
    /\ entry' = ModelState
    /\ training' = TRUE
    /\ meters' = EmptyMap
    /\ results' = EmptyMap
    /\ name' = Unbound
    /\ evaluation_results' = UnboundResults
    /\ fileWrites' = 0
    /\ i' = 0
    /\ pc' = "e_enter"
    /\ UNCHANGED <<stream, gradEnabled, ret, flags, file, prevGrad, failure, run, first>>
    /\ UNCHANGED modelVars
    /\ UNCHANGED trainLocals

EvalBegin ==
    /\ pc = "e_begin"
    /\ entry' = ModelState
    /\ training' = FALSE
    /\ meters' = EmptyMap
    /\ results' = EmptyMap
    /\ name' = Unbound
    /\ evaluation_results' = UnboundResults
    /\ fileWrites' = 0
    /\ i' = 0
    /\ pc' = "e_enter"
    /\ UNCHANGED <<stream, gradEnabled, ret, flags, file, prevGrad, failure, run, first>>
    /\ UNCHANGED modelVars
    /\ UNCHANGED trainLocals

\* line 46: with torch.no_grad():
EvalEnterNoGrad ==
    /\ pc = "e_enter"
    /\ prevGrad' = gradEnabled
    /\ gradEnabled' = FALSE
    /\ pc' = "e_fetch"
    /\ UNCHANGED <<stream, i, training, meters, ret, flags, results, name,
                   evaluation_results, file, fileWrites, entry, failure, run, first>>
    /\ UNCHANGED modelVars
    /\ UNCHANGED trainLocals

\* lines 47-48: the next batch and its forward pass, or the end of the loop
EvalFetch ==
    /\ pc = "e_fetch"
    /\ IF i < Len(stream)
         THEN i' = i + 1 /\ pc' = "e_recognition"
         ELSE i' = i /\ pc' = "e_score_recognition"
    /\ UNCHANGED <<stream, training, gradEnabled, meters, ret, flags, results, name,
                   evaluation_results, file, fileWrites, prevGrad, entry, failure,
                   run, first>>
    /\ UNCHANGED modelVars
    /\ UNCHANGED trainLocals

\* lines 49-61: the recognition branch of one batch
EvalRecognition ==
    /\ pc = "e_recognition"
    /\ LET b == stream[i]
           wrote == flags.do_recognition /\ \E k \in OutputKeys(b) : IsGlossLogits(k)
       IN /\ results' = IF flags.do_recognition
                          THEN RecognitionWrites(results, OutputKeys(b), b.names,
                                                 flags.lower_case)
                          ELSE results
          /\ name' = IF wrote THEN b.names[Len(b.names)] ELSE name
    /\ pc' = "e_translation"
    /\ UNCHANGED <<stream, i, training, gradEnabled, meters, ret, flags,
                   evaluation_results, file, fileWrites, prevGrad, entry, failure,
                   run, first>>
    /\ UNCHANGED modelVars
    /\ UNCHANGED trainLocals

\* lines 62-68: the translation branch of one batch
EvalTranslation ==
    /\ pc = "e_translation"
    /\ LET b == stream[i]
       IN /\ results' = IF flags.do_translation
                          THEN TranslationWrites(results, b.names, flags.generate_cfg)
                          ELSE results
          /\ name' = IF flags.do_translation THEN b.names[Len(b.names)] ELSE name
    /\ pc' = "e_update"
    /\ UNCHANGED <<stream, i, training, gradEnabled, meters, ret, flags,
                   evaluation_results, file, fileWrites, prevGrad, entry, failure,
                   run, first>>
    /\ UNCHANGED modelVars
    /\ UNCHANGED trainLocals

\* line 69: metric_logger.update(loss=output['total_loss'].item())
EvalUpdate ==
    /\ pc = "e_update"
    /\ meters' = MeterUpdate(meters, "loss", TotalLoss(stream[i]))
    /\ pc' = "e_fetch"
    /\ UNCHANGED <<stream, i, training, gradEnabled, ret, flags, results, name,
                   evaluation_results, file, fileWrites, prevGrad, entry, failure,
                   run, first>>
    /\ UNCHANGED modelVars
    /\ UNCHANGED trainLocals

\* lines 71-84: after the pass, one WER per gloss hypothesis field of
\* results[name], `name` being whatever the batch loops assigned last
EvalScoreRecognition ==
    /\ pc = "e_score_recognition"
    /\ IF ~flags.do_recognition
         THEN /\ pc' = "e_write"
              /\ UNCHANGED <<results, evaluation_results, meters, gradEnabled, failure>>
         ELSE IF name = Unbound
         THEN /\ RaiseInsideNoGrad("UnboundLocalError")
              /\ evaluation_results' = [bound |-> TRUE, map |-> Put(EmptyMap, WerKey, WerStart)]
              /\ UNCHANGED <<results, meters>>
         ELSE LET r == Put(results, name, DictGet(results, name))
                  hyp_names == {f \in DOMAIN r[name] : IsGlsHyp(f)}
                  missing == \E f \in hyp_names : \E n \in DOMAIN r :
                                 GlsRefField \notin DOMAIN r[n] \/ f \notin DOMAIN r[n]
                  ev == ScoreHeads(Put(EmptyMap, WerKey, WerStart), hyp_names, r)
              IN /\ results' = r
                 /\ IF missing
                      THEN /\ RaiseInsideNoGrad("KeyError")
                           /\ evaluation_results' =
                                  [bound |-> TRUE, map |-> Put(EmptyMap, WerKey, WerStart)]
                           /\ UNCHANGED meters
                      ELSE /\ evaluation_results' = [bound |-> TRUE, map |-> ev]
                           /\ meters' = MeterUpdate(meters, "wer", ev[WerKey])
                           /\ pc' = "e_write"
                           /\ UNCHANGED <<gradEnabled, failure>>
    /\ UNCHANGED <<stream, i, training, ret, flags, name, file, fileWrites, prevGrad,
                   entry, run, first>>
    /\ UNCHANGED modelVars
    /\ UNCHANGED trainLocals

\* lines 85-88: open(results_path, "w") and json.dump(results, f)
EvalWriteAppends ==
    /\ pc = "e_write"
    /\ IF flags.results_path
         THEN file' = Append(file, JsonDump(results)) /\ fileWrites' = fileWrites + 1
         ELSE UNCHANGED <<file, fileWrites>>
    /\ pc' = "e_score_translation"
    /\ UNCHANGED <<stream, i, training, gradEnabled, meters, ret, flags, results, name,
                   evaluation_results, prevGrad, entry, failure, run, first>>
    /\ UNCHANGED modelVars
    /\ UNCHANGED trainLocals

EvalWrite ==
    /\ pc = "e_write"
    /\ IF flags.results_path
         THEN file' = <<JsonDump(results)>> /\ fileWrites' = fileWrites + 1
         ELSE UNCHANGED <<file, fileWrites>>
    /\ pc' = "e_score_translation"
    /\ UNCHANGED <<stream, i, training, gradEnabled, meters, ret, flags, results, name,
                   evaluation_results, prevGrad, entry, failure, run, first>>
    /\ UNCHANGED modelVars
    /\ UNCHANGED trainLocals

\* lines 90-104: BLEU and ROUGE over all text pairs; line 98 stores them in
\* evaluation_results, a local that only the recognition scoring binds
EvalScoreTranslation ==
    /\ pc = "e_score_translation"
    /\ IF ~flags.do_translation
         THEN /\ pc' = "e_exit"
              /\ UNCHANGED <<evaluation_results, meters, gradEnabled, failure>>
         ELSE IF \E n \in DOMAIN results :
                     {TxtRefField, TxtHypField} \ DOMAIN results[n] # {}
         THEN /\ RaiseInsideNoGrad("KeyError")
              /\ UNCHANGED <<evaluation_results, meters>>
         ELSE LET txt_ref == [n \in DOMAIN results |-> results[n][TxtRefField]]
                  txt_hyp == [n \in DOMAIN results |-> results[n][TxtHypField]]
                  bleu_dict == Bleu(txt_ref, txt_hyp)
                  rouge_score == Rouge(txt_ref, txt_hyp)
              IN IF ~evaluation_results.bound
                   THEN /\ RaiseInsideNoGrad("UnboundLocalError")
                        /\ UNCHANGED <<evaluation_results, meters>>
                   ELSE /\ evaluation_results' =
                               [bound |-> TRUE,
                                map |-> Put(Put(evaluation_results.map, RougeKey, rouge_score),
                                            BleuKey, bleu_dict)]
                        /\ meters' =
                               MeterUpdate(
                                 MeterUpdate(
                                   MeterUpdate(
                                     MeterUpdate(
                                       MeterUpdate(meters, "bleu1", bleu_dict.bleu1),
                                       "bleu2", bleu_dict.bleu2),
                                     "bleu3", bleu_dict.bleu3),
                                   "bleu4", bleu_dict.bleu4),
                                 "rouge", rouge_score)
                        /\ pc' = "e_exit"
                        /\ UNCHANGED <<gradEnabled, failure>>
    /\ UNCHANGED <<stream, i, training, ret, flags, results, name, file, fileWrites,
                   prevGrad, entry, run, first>>
    /\ UNCHANGED modelVars
    /\ UNCHANGED trainLocals

\* the end of the `with torch.no_grad():` block of line 46
EvalExitNoGrad ==
    /\ pc = "e_exit"
    /\ gradEnabled' = prevGrad
    /\ pc' = "e_return"
    /\ UNCHANGED <<stream, i, training, meters, ret, flags, results, name,
                   evaluation_results, file, fileWrites, prevGrad, entry, failure,
                   run, first>>
    /\ UNCHANGED modelVars
    /\ UNCHANGED trainLocals

\* lines 109-112: return {k: meter.global_avg for k, meter in ...}
EvalReturn ==
    /\ pc = "e_return"
    /\ ret' = Averages(meters)
    /\ pc' = "e_done"
    /\ UNCHANGED <<stream, i, training, gradEnabled, meters, flags, results, name,
                   evaluation_results, file, fileWrites, prevGrad, entry, failure,
                   run, first>>
    /\ UNCHANGED modelVars
    /\ UNCHANGED trainLocals

\* a collaborator (model, decoder, tokenizer, metric function, file write)
\* raises inside the block; src/opt.py handles nothing, so it propagates
EvalCollaboratorRaises ==
    /\ pc \in {"e_fetch", "e_recognition", "e_translation", "e_score_recognition",
               "e_write", "e_score_translation"}
    /\ RaiseInsideNoGrad("collaborator")
    /\ UNCHANGED <<stream, i, training, meters, ret, flags, results, name,
                   evaluation_results, file, fileWrites, prevGrad, entry, run, first>>
    /\ UNCHANGED modelVars
    /\ UNCHANGED trainLocals

\* the caller runs evaluate_fn a second time with the same arguments
EvalAgain ==
    /\ pc = "e_done"
    /\ run = 1
    /\ first' = [ret |-> ret, file |-> file]
    /\ run' = 2
    /\ ret' = EmptyMap
    /\ pc' = "e_begin"
    /\ UNCHANGED <<stream, i, training, gradEnabled, meters, flags, results, name,
                   evaluation_results, file, fileWrites, prevGrad, entry, failure>>
    /\ UNCHANGED modelVars
    /\ UNCHANGED trainLocals

EvalNext ==
    \/ EvalBegin
    \/ EvalEnterNoGrad
    \/ EvalFetch
    \/ EvalRecognition
    \/ EvalTranslation
    \/ EvalUpdate
    \/ EvalScoreRecognition
    \/ EvalWrite
    \/ EvalScoreTranslation
    \/ EvalExitNoGrad
    \/ EvalReturn
    \/ EvalCollaboratorRaises
    \/ EvalAgain

EvalSpec == EvalInit /\ [][EvalNext]_vars

(***************************************************************************)
(* Properties of train_one_epoch, checked under TrainSpec.                 *)
(***************************************************************************)
MeterValues(m, k) == IF k \in DOMAIN m THEN m[k] ELSE <<>>

\* the parameters after the first n batches of an all-finite prefix
RECURSIVE ParamsAfter(_)
ParamsAfter(n) ==
    IF n = 0 THEN 0
    ELSE StepParams(ParamsAfter(n - 1), ClipGradNorm(Gradient(stream[n])))

AllFinite == \A k \in 1..Len(stream) : IsFinite(stream[k])

\* C1: once the forward pass of a batch has produced a NaN or infinite loss,
\* the driver is past the check only by having raised ValueError: no backward
\* pass and no optimizer step was made for the batch, the parameters and the
\* optimizer state are those left by the last completed batch, and the
\* aggregator holds the loss and lr values of the preceding batches only.
C1_RaisesBeforeBackwardAndStep ==
    (i >= 1 /\ ~IsFinite(stream[i]) /\ pc \notin {"t_zero_grad", "t_forward", "t_check"})
        => /\ pc = "t_raised"
           /\ failure = "ValueError"
           /\ backwards = i - 1
           /\ optState = i - 1
           /\ <<params, optState>> = lastGood
           /\ params = ParamsAfter(i - 1)
           /\ MeterValues(meters, "loss") = [k \in 1..(i - 1) |-> stream[k].v]
           /\ MeterValues(meters, "lr") = [k \in 1..(i - 1) |-> LearningRate]

C1_Witness ==
    /\ pc = "t_raised"
    /\ i = 3
    /\ stream[i] = PosInf
    /\ params = 1
    /\ optState = 2

\* C8: the process-terminating branch of the second finiteness check is never
\* taken: the second check only ever sees a finite loss, and every execution
\* that stops has returned the averages or propagated an exception.
C8_ExitBranchUnreachable ==
    /\ pc # "t_exited"
    /\ pc = "t_finite" => IsFinite(loss)
    /\ (i >= 1 /\ ~IsFinite(stream[i]) /\ pc \notin {"t_zero_grad", "t_forward", "t_check"})
           => pc = "t_raised"
    /\ (ENABLED TrainNext) \/ pc \in {"t_done", "t_raised"}

C8_Witness ==
    /\ pc = "t_raised"
    /\ stream[i] = NegInf
    /\ optState = 2

\* C9: over a stream of N >= 1 finite-loss batches the driver neither raises
\* nor exits, and when it returns it has made exactly N optimizer steps and
\* N backward passes, has recorded the N losses in stream order (and N
\* learning rates), and returns as 'loss' their arithmetic mean.
C9_OneStepAndOneUpdatePerBatch ==
    AllFinite =>
        /\ pc \notin {"t_raised", "t_exited"}
        /\ pc = "t_fetch" => optState = i /\ Len(MeterValues(meters, "loss")) = i
        /\ pc = "t_done" =>
              /\ optState = Len(stream)
              /\ backwards = Len(stream)
              /\ meters["loss"] = [k \in 1..Len(stream) |-> stream[k].v]
              /\ Len(meters["lr"]) = Len(stream)
              /\ ret["loss"][2] > 0
              /\ ret["loss"][1] * Len(stream) = SumSeq(meters["loss"]) * ret["loss"][2]

C9_Witness ==
    /\ pc = "t_done"
    /\ Len(stream) = 3
    /\ stream[1] = Fin(2)
    /\ stream[2] = Fin(0)
    /\ ret["loss"] = <<4, 3>>

(***************************************************************************)
(* Properties of evaluate_fn, checked under EvalSpec.                      *)
(***************************************************************************)
InsideNoGrad == {"e_fetch", "e_recognition", "e_translation", "e_update",
                 "e_score_recognition", "e_write", "e_score_translation", "e_exit"}

AfterBatch == {"e_fetch", "e_score_recognition", "e_write", "e_score_translation",
               "e_exit", "e_return", "e_done"}

AfterRecognitionScoring == {"e_write", "e_score_translation", "e_exit", "e_return",
                            "e_done"}

\* the sample names of the first n batches
NamesUpTo(n) == UNION {SeqToSet(stream[k].names) : k \in 1..n}

\* a branch of the batch loop writes to the results table for batch b
RecognitionWritesFor(b) == flags.do_recognition /\ b.heads # {}
TranslationWritesFor(b) == flags.do_translation

WrittenUpTo(n) ==
    UNION {SeqToSet(stream[k].names) :
              k \in {j \in 1..n : RecognitionWritesFor(stream[j])
                                    \/ TranslationWritesFor(stream[j])}}

GlossFields == {HypField(h) : h \in Heads} \cup {GlsRefField}
TextFields == {TxtHypField, TxtRefField}

\* the step changes, in entries that exist already, only fields of `fields`,
\* and removes no entry and no field
ChangesOnly(fields) ==
    \A n \in DOMAIN results :
        /\ n \in DOMAIN results'
        /\ \A f \in DOMAIN results[n] :
              /\ f \in DOMAIN results'[n]
              /\ f \notin fields => results'[n][f] = results[n][f]

AddsOnly(fields) ==
    \A n \in DOMAIN results' :
        \A f \in DOMAIN results'[n] :
            f \in fields \/ (n \in DOMAIN results /\ f \in DOMAIN results[n])

\* C3, as claimed, for a call with recognition or translation enabled: at
\* every batch boundary and after the pass the keys of the results table are
\* exactly the sample names of the batches processed so far.
C3_KeysAreAllNamesSeen ==
    (pc \in AfterBatch /\ (flags.do_recognition \/ flags.do_translation))
        => DOMAIN results = NamesUpTo(i)

\* C3, amended: the keys of the results table are exactly the sample names of
\* the processed batches for which a branch wrote (translation enabled, or
\* recognition enabled and the output holding a gloss head), hence a subset
\* of the names seen; the post-pass steps add no key and change no entry; the
\* recognition branch adds and changes gloss fields only, the translation
\* branch text fields only, and neither removes an entry or a field.
C3_KeysAreNamesWritten ==
    /\ [](/\ pc \in AfterBatch => DOMAIN results = WrittenUpTo(i)
          /\ pc = "e_recognition" => DOMAIN results = WrittenUpTo(i - 1)
          /\ pc \in InsideNoGrad => DOMAIN results \subseteq NamesUpTo(i))
    /\ [][/\ pc = "e_recognition" => ChangesOnly(GlossFields) /\ AddsOnly(GlossFields)
          /\ pc = "e_translation" => ChangesOnly(TextFields) /\ AddsOnly(TextFields)
          /\ pc \notin {"e_begin", "e_recognition", "e_translation"}
                => results' = results]_vars

C3_Witness ==
    /\ pc = "e_update"
    /\ i = 2
    /\ \E n \in SeqToSet(stream[i].names) :
          /\ n \in DOMAIN results
          /\ TextFields \subseteq DOMAIN results[n]
          /\ GlsRefField \in DOMAIN results[n]
          /\ HypField("left_") \in DOMAIN results[n]
          /\ HypField("right_") \in DOMAIN results[n]

\* the gloss hypothesis fields any sample of the table holds, and the
\* corpus-level WER of one of them over the samples that hold it
ContributedHyps ==
    {f \in UNION {DOMAIN results[n] : n \in DOMAIN results} : IsGlsHyp(f)}

HeadWer(f) ==
    LET S == {n \in DOMAIN results : f \in DOMAIN results[n]}
    IN WerList([n \in S |-> results[n][f]], [n \in S |-> results[n][GlsRefField]]).wer

RECURSIVE MinOver(_, _)
MinOver(S, f) ==
    LET x == CHOOSE y \in S : TRUE
    IN IF S = {x} THEN f[x] ELSE Min(f[x], MinOver(S \ {x}, f))

EveryBatchHasEveryHead == \A k \in 1..Len(stream) : stream[k].heads = Heads
EveryBatchHasAHead == \A k \in 1..Len(stream) : stream[k].heads # {}

\* C2, as claimed, for a model that emits a gloss head on every batch: with
\* recognition enabled, once the recognition scoring is done, the overall
\* 'wer' is the minimum over every gloss head that contributed a hypothesis
\* to any sample of that head's corpus-level WER, and evaluation_results
\* holds a '<head>wer_list' entry for each such head.
C2_WerIsMinOverContributingHeads ==
    (flags.do_recognition /\ pc \in AfterRecognitionScoring /\ EveryBatchHasAHead)
        => /\ evaluation_results.bound
           /\ \A f \in ContributedHyps : WerListKey(f) \in DOMAIN evaluation_results.map
           /\ evaluation_results.map[WerKey]
                 = MinOver(ContributedHyps, [f \in ContributedHyps |-> HeadWer(f)])

Ended == pc \in {"e_done", "e_raised"} /\ failure # "collaborator"

\* C4, as claimed, for a model that emits every gloss head on every batch:
\* whichever of recognition and translation is enabled, a call in which no
\* collaborator fails returns normally, with bleu1..bleu4 and rouge in the
\* returned averages when translation is enabled and wer when recognition is.
C4_ReturnsForEveryFlagCombination ==
    (Ended /\ EveryBatchHasEveryHead /\ (flags.do_recognition \/ flags.do_translation))
        => /\ pc = "e_done"
           /\ "loss" \in DOMAIN ret
           /\ flags.do_translation
                 => {"bleu1", "bleu2", "bleu3", "bleu4", "rouge"} \subseteq DOMAIN ret
           /\ flags.do_recognition => "wer" \in DOMAIN ret

\* C5, as claimed, for a model that emits a gloss head on every batch: a call
\* in which no collaborator fails writes the results file exactly once when
\* results_path is supplied and never otherwise, and the file then holds the
\* full results table and nothing else.
C5_FileWrittenIffPathSupplied ==
    (Ended /\ EveryBatchHasAHead)
        => /\ flags.results_path => fileWrites = 1 /\ file = <<JsonDump(results)>>
           /\ ~flags.results_path => fileWrites = 0

\* C6: gradient tracking is off from the entry of the no_grad block, before
\* the first forward pass, through every step of the pass and the scoring,
\* and is back to its state on entry of the call once the block is left, on
\* the normal path as well as when an error propagates.
C6_NoGradScoped ==
    /\ pc \in InsideNoGrad => ~gradEnabled
    /\ pc \in {"e_return", "e_done", "e_raised"} => gradEnabled = entry.gradEnabled

C6_Witness ==
    /\ pc = "e_raised"
    /\ failure = "collaborator"
    /\ i = 2
    /\ entry.gradEnabled
    /\ gradEnabled

\* C7: a second call over the same stream with the same arguments that
\* returns, returns the averages of the first call and leaves the results
\* file with the content the first call left; it does not fail where the
\* first call did not.
C7_SecondCallSameOutcome ==
    /\ (run = 2 /\ pc = "e_done") => ret = first.ret /\ file = first.file
    /\ (run = 2 /\ pc = "e_raised") => failure = "collaborator"

C7_Witness ==
    /\ run = 2
    /\ pc = "e_done"
    /\ flags.results_path
    /\ flags.do_recognition
    /\ flags.do_translation
    /\ Len(stream) = 2
    /\ Len(file) = 1
    /\ "wer" \in DOMAIN ret

ModelUntouched ==
    /\ params = entry.params
    /\ grads = entry.grads
    /\ optState = entry.optState
    /\ backwards = entry.backwards

\* C10, as claimed: when the call ends, by return or by a propagated error,
\* parameters, gradients and training mode are those on entry, and no
\* optimizer step or backward pass was made.
C10_ModelStateAsOnEntry ==
    pc \in {"e_done", "e_raised"} => ModelUntouched /\ training = entry.training

\* C10, amended: throughout the call and when it ends, by return or by a
\* propagated error, parameters and gradients are those on entry and no
\* optimizer step or backward pass was made; the model is put in evaluation
\* mode at the start and is left in evaluation mode, whatever its mode on entry.
C10_ModelUntouchedLeftInEvalMode ==
    pc # "e_begin" => ModelUntouched /\ ~training

C10_Witness ==
    /\ pc = "e_done"
    /\ entry.training
    /\ ~training
    /\ flags.do_recognition

====
